---------------------------- MODULE Spec2Model ----------------------------
(* A model of sbg.py: the paginated listing fetch (GitLabCloner._get),     *)
(* the group traversal (GitLabCloner.gather_all_projects), the id-keyed    *)
(* merge and the synchronization loop of main, and clone_or_pull.          *)
(*                                                                         *)
(* Strings on which the program computes (namespaces, slugs, paths) are    *)
(* sequences of one-character strings; strings it only passes on (remote   *)
(* addresses) are TLA+ strings.                                            *)
EXTENDS Integers, Sequences, FiniteSets, TLC

VARIABLES
  entry,        \* the function the run enters: "main", "gather" or "get"
  srvProjects,  \* server: group -> the records of its project listing
  srvSubgroups, \* server: group -> the records of its subgroup listing
  group_ids,    \* args.group_ids: the configured roots, in order
  use_ssh,      \* args.use_ssh
  pc,           \* position of main / of the entered function
  gidx,         \* main: number of roots whose gather_all_projects returned
  all_projects, \* main: the id-keyed dict, as its values in insertion order
  observed,     \* history: the lists gather_all_projects returned to main, concatenated
  gpc,          \* gather_all_projects: position inside the while loop
  stack,        \* gather_all_projects: the worklist
  seen,         \* gather_all_projects: the visited set
  projects,     \* gather_all_projects: the accumulated project records
  gid,          \* gather_all_projects: the GroupRef being expanded
  projs,        \* gather_all_projects: result of list_projects(gid)
  page,         \* _get: the page to request next
  items,        \* _get: the records accumulated so far
  reqs,         \* every GET issued, in order, with its outcome
  log,          \* every diagnostic emitted through logger, in order
  pidx,         \* main: number of projects the synchronization loop handled
  fs,           \* filesystem: the directories that exist
  calls,        \* every external git invocation, in order, with its outcome
  exit_code,    \* the process exit status, "none" while running
  history,      \* the git invocations of the earlier runs on this filesystem, one sequence per run
  fs_start      \* the directories that existed before the first run

vars == <<entry, srvProjects, srvSubgroups, group_ids, use_ssh, pc, gidx,
          all_projects, observed, gpc, stack, seen, projects, gid, projs, page, items,
          reqs, log, pidx, fs, calls, exit_code, history, fs_start>>

-----------------------------------------------------------------------------
(* Bounds of the model. *)

\* number of groups the server knows
NumGroups == 3
\* largest number of parent-child pairs of a hierarchy
MaxEdges == 4
\* largest listing the pagination specification draws
MaxTotal == 237
\* largest number of segments of a full path the namespace specification draws
MaxSegments == 3

(* Program constants. *)

\* params.setdefault("per_page", 100)
PerPage == 100
\* items, page = [], 1
FirstPage == 1

Groups == 1..NumGroups

-----------------------------------------------------------------------------
(* GroupRef values. A root comes from the command line or from a caller    *)
(* and is a string (a path, or the digits of an id) or an int; a subgroup  *)
(* reference is sg["id"], always an int. Python never finds an int equal   *)
(* to a string, so the two forms of one group are different set members.   *)

IntRef(g) == [form |-> "int", group |-> g]
StrRef(g) == [form |-> "str", group |-> g]
GroupRefs == {IntRef(g) : g \in Groups} \cup {StrRef(g) : g \in Groups}

\* f"/api/v4/groups/{group_id}/..." and the server's lookup of the group:
\* both forms of a reference name the same group in the URL.
Resolve(ref) == ref.group


-----------------------------------------------------------------------------
(* The records of the listings. *)

\* A project that has no "namespace" key: proj.get("namespace", {}) is {}.
NoNamespace == [present |-> FALSE, full_path |-> <<>>]
Namespace(p) == [present |-> TRUE, full_path |-> p]

Project(i, ns, pwn, slug, t) ==
  [id |-> i, namespace |-> ns, path_with_namespace |-> pwn, path |-> slug,
   http_url_to_repo |-> <<"http", i>>, ssh_url_to_repo |-> <<"ssh", i>>,
   last_activity_at |-> t]

\* One record of a subgroup listing; only its "id" is read.
Subgroup(g) == [id |-> g]

\* The project listings of the groups of a run: group 1 and group 2 share
\* project 42, seen with a different last_activity_at in each listing.
P41  == Project(41, Namespace(<<"a", "/", "b">>), <<"a", "/", "b", "/", "x">>, <<"x">>, 1)
P42a == Project(42, NoNamespace, <<"a", "/", "y">>, <<"y">>, 1)
P42b == Project(42, NoNamespace, <<"a", "/", "y">>, <<"y">>, 2)
P43  == Project(43, NoNamespace, <<"z">>, <<"z">>, 1)

RunProjects ==
  [g \in Groups |-> CASE g = 1 -> <<P41, P42a>>
                      [] g = 2 -> <<P42b>>
                      [] OTHER -> <<P43>>]

\* A listing of n records with the ids 1..n.
BigProjects(n) == [i \in 1..n |-> Project(i, NoNamespace, <<"p">>, <<"p">>, 1)]
BigSubgroups(n) == [i \in 1..n |-> Subgroup(i)]

-----------------------------------------------------------------------------
(* GitLabCloner._get, list_projects and list_subgroups. *)

Min(a, b) == IF a < b THEN a ELSE b

\* Mutant of Params: per_page is never set and the server pages by its
\* default of 20.
ParamsServerDefault(kind) ==
  [include_subgroups |-> IF kind = "list_projects" THEN "False" ELSE "unset",
   per_page |-> 20]

\* The query parameters of a listing before "page" is set: list_projects
\* passes include_subgroups=False, list_subgroups passes nothing, and _get
\* adds per_page unless the caller gave one.
Params(kind) ==
  [include_subgroups |-> IF kind = "list_projects" THEN "False" ELSE "unset",
   per_page |-> PerPage]

\* The listing the URL of a request names.
ServerListing(kind, ref) ==
  IF kind = "list_projects" THEN srvProjects[Resolve(ref)]
                             ELSE srvSubgroups[Resolve(ref)]

\* The server's answer to page p of a listing at per_page records a page.
ServerPage(listing, per_page, p) ==
  SubSeq(listing, (p - 1) * per_page + 1, Min(p * per_page, Len(listing)))

\* Mutant of LastPage: a full page ends the loop too.
LastPageOrFull(chunk, per_page) == Len(chunk) <= per_page

\* if len(chunk) < params["per_page"]: break
LastPage(chunk, per_page) == Len(chunk) < per_page

\* What a GET can do: answer with a success status, answer with a 4xx/5xx
\* status (raise_for_status raises requests.HTTPError), or not complete
\* (session.get raises requests.ConnectionError).
Outcomes == {"ok", "HTTPError", "ConnectionError"}

\* except requests.HTTPError: ConnectionError is a RequestException but no
\* HTTPError, so the clause lets it through.
Caught(err) == err = "HTTPError"

Request(kind, ref, p, outcome, n) ==
  [call |-> gidx, kind |-> kind, ref |-> ref,
   params |-> [include_subgroups |-> Params(kind).include_subgroups,
               per_page |-> Params(kind).per_page, page |-> p],
   outcome |-> outcome, size |-> n]

\* Mutant of SubgroupRefs: only the first subgroup is pushed.
SubgroupRefsFirst(subs) == [i \in 1..Min(1, Len(subs)) |-> IntRef(subs[i].id)]

\* sg["id"] of every record of the subgroup listing, in listing order.
SubgroupRefs(subs) == [i \in 1..Len(subs) |-> IntRef(subs[i].id)]

\* _get returns `result` to its caller.
GetReturns(result) ==
  CASE entry = "get" ->
         /\ items' = result
         /\ pc' = "returned"
         /\ gpc' = "idle"
         /\ UNCHANGED <<page, projs, projects, stack, log, exit_code>>
    [] gpc = "list_projects" ->
         \* projs = self.list_projects(gid); subs = self.list_subgroups(gid)
         /\ projs' = result
         /\ gpc' = "list_subgroups"
         /\ page' = FirstPage
         /\ items' = <<>>
         /\ UNCHANGED <<projects, stack, log, pc, exit_code>>
    [] OTHER ->
         \* projects.extend(projs); stack.append(sg["id"]) for each subgroup
         /\ projects' = projects \o projs
         /\ stack' = stack \o SubgroupRefs(result)
         /\ gpc' = "loop"
         /\ items' = result
         /\ UNCHANGED <<page, projs, log, pc, exit_code>>

\* Mutant of GetRaises: the records of the pages already fetched are
\* returned in place of the error.
GetRaisesPartial(err) == GetReturns(items)

\* _get raises `err`: gather_all_projects catches it or lets it through to
\* its caller; main catches nothing, and the handler at the end of the
\* file turns an exception into exit status 1.
GetRaises(err) ==
  CASE entry = "get" ->
         /\ pc' = "raised"
         /\ gpc' = "idle"
         /\ UNCHANGED <<page, items, projs, projects, stack, log, exit_code>>
    [] Caught(err) ->
         /\ log' = Append(log, [level |-> "warning", what |-> "fetch", ref |-> gid])
         /\ gpc' = "loop"
         /\ UNCHANGED <<page, items, projs, projects, stack, pc, exit_code>>
    [] entry = "gather" ->
         /\ pc' = "raised"
         /\ gpc' = "idle"
         /\ UNCHANGED <<page, items, projs, projects, stack, log, exit_code>>
    [] OTHER ->
         /\ log' = Append(log, [level |-> "critical", what |-> "fatal", ref |-> err])
         /\ pc' = "fatal"
         /\ exit_code' = 1
         /\ gpc' = "idle"
         /\ UNCHANGED <<page, items, projs, projects, stack>>

\* One iteration of the while loop of _get: one GET and what follows it.
GetPage ==
  /\ gpc \in {"list_projects", "list_subgroups"}
  /\ \E outcome \in Outcomes :
       LET per_page == Params(gpc).per_page
           chunk == IF outcome = "ok"
                      THEN ServerPage(ServerListing(gpc, gid), per_page, page)
                      ELSE <<>>
       IN /\ reqs' = Append(reqs, Request(gpc, gid, page, outcome, Len(chunk)))
          /\ CASE outcome # "ok" -> GetRaises(outcome)
               [] chunk = <<>> -> GetReturns(items)
               [] LastPage(chunk, per_page) -> GetReturns(items \o chunk)
               [] OTHER ->
                    /\ items' = items \o chunk
                    /\ page' = page + 1
                    /\ UNCHANGED <<gpc, projs, projects, stack, log, pc, exit_code>>
  /\ UNCHANGED <<history, fs_start, entry, srvProjects, srvSubgroups, group_ids, use_ssh, gidx,
                 all_projects, observed, seen, gid, pidx, fs, calls>>

-----------------------------------------------------------------------------
(* GitLabCloner.gather_all_projects. *)

Last(q) == q[Len(q)]
Front(q) == SubSeq(q, 1, Len(q) - 1)

\* if gid in seen: continue
AlreadySeen(ref, visited) == ref \in visited

\* gid = stack.pop() of a reference that is in seen: nothing is fetched.
PopSeen ==
  /\ gpc = "loop"
  /\ stack # <<>>
  /\ AlreadySeen(Last(stack), seen)
  /\ gid' = Last(stack)
  /\ stack' = Front(stack)
  /\ UNCHANGED <<history, fs_start, entry, srvProjects, srvSubgroups, group_ids, use_ssh, pc, gidx,
                 all_projects, observed, gpc, seen, projects, projs, page, items, reqs,
                 log, pidx, fs, calls, exit_code>>

\* gid = stack.pop() of a new reference: seen.add(gid), and list_projects
\* starts its _get.
PopNew ==
  /\ gpc = "loop"
  /\ stack # <<>>
  /\ ~AlreadySeen(Last(stack), seen)
  /\ gid' = Last(stack)
  /\ stack' = Front(stack)
  /\ seen' = seen \cup {Last(stack)}
  /\ gpc' = "list_projects"
  /\ page' = FirstPage
  /\ items' = <<>>
  /\ UNCHANGED <<history, fs_start, entry, srvProjects, srvSubgroups, group_ids, use_ssh, pc, gidx,
                 all_projects, observed, projects, projs, reqs, log, pidx, fs, calls,
                 exit_code>>

-----------------------------------------------------------------------------
(* main, phase 1: gather and dedupe. *)

\* Mutant of DictSet: a known key keeps its first value
\* (all_projects.setdefault(proj["id"], proj)).
DictSetFirstWins(d, proj) ==
  IF \E i \in 1..Len(d) : d[i].id = proj.id THEN d ELSE Append(d, proj)

\* all_projects[proj["id"]] = proj on a dict kept as its values in insertion
\* order: a known key keeps its place and takes the new value.
DictSet(d, proj) ==
  IF \E i \in 1..Len(d) : d[i].id = proj.id
    THEN [i \in 1..Len(d) |-> IF d[i].id = proj.id THEN proj ELSE d[i]]
    ELSE Append(d, proj)

\* for proj in cloner.gather_all_projects(gid): all_projects[proj["id"]] = proj
RECURSIVE MergeInto(_, _)
MergeInto(d, list) ==
  IF list = <<>> THEN d ELSE MergeInto(DictSet(d, list[1]), Tail(list))

\* The for loop of main takes the next root and calls gather_all_projects:
\* projects = [], stack, seen = [group_id], set().
MainGather ==
  /\ entry = "main"
  /\ pc = "gather"
  /\ gpc = "idle"
  /\ gidx < Len(group_ids)
  /\ log' = Append(log, [level |-> "info", what |-> "fetching", ref |-> group_ids[gidx + 1]])
  /\ stack' = <<group_ids[gidx + 1]>>
  /\ seen' = {}
  /\ projects' = <<>>
  /\ gpc' = "loop"
  /\ UNCHANGED <<history, fs_start, entry, srvProjects, srvSubgroups, group_ids, use_ssh, pc, gidx,
                 all_projects, observed, gid, projs, page, items, reqs, pidx, fs, calls,
                 exit_code>>

\* while stack: ends, gather_all_projects returns projects; in main the
\* returned list is merged into all_projects, and after the last root main
\* logs the total and goes on to the destination root.
GatherReturn ==
  /\ gpc = "loop"
  /\ stack = <<>>
  /\ gpc' = "idle"
  /\ IF entry = "main"
       THEN /\ all_projects' = MergeInto(all_projects, projects)
            /\ observed' = observed \o projects
            /\ gidx' = gidx + 1
            /\ IF gidx + 1 = Len(group_ids)
                 THEN /\ pc' = "makedirs"
                      /\ log' = Append(log, [level |-> "info", what |-> "total",
                                             ref |-> Len(all_projects')])
                 ELSE UNCHANGED <<pc, log>>
       ELSE /\ pc' = "returned"
            /\ UNCHANGED <<all_projects, observed, gidx, log>>
  /\ UNCHANGED <<history, fs_start, entry, srvProjects, srvSubgroups, group_ids, use_ssh, stack,
                 seen, projects, gid, projs, page, items, reqs, pidx, fs, calls,
                 exit_code>>

-----------------------------------------------------------------------------
(* Paths and the filesystem. *)

Sep == "/"

\* os.path.abspath(args.dest)
DestRoot == <<"/", "d">>

\* s.split("/"): the segments between the separators, at least one.
RECURSIVE Split(_)
Split(s) ==
  IF \A i \in 1..Len(s) : s[i] # Sep
    THEN <<s>>
    ELSE LET k == CHOOSE i \in 1..Len(s) :
                    s[i] = Sep /\ \A j \in 1..(i - 1) : s[j] # Sep
         IN <<SubSeq(s, 1, k - 1)>> \o Split(SubSeq(s, k + 1, Len(s)))

\* "/".join(segments)
RECURSIVE Join(_)
Join(segs) ==
  IF segs = <<>> THEN <<>>
  ELSE IF Len(segs) = 1 THEN segs[1]
  ELSE segs[1] \o <<Sep>> \o Join(Tail(segs))

\* os.path.join(a, b) on POSIX: an absolute b replaces a.
PathJoin(a, b) ==
  IF b # <<>> /\ b[1] = Sep THEN b
  ELSE IF a = <<>> \/ a[Len(a)] = Sep THEN a \o b
  ELSE a \o <<Sep>> \o b

\* Mutant of ResolveNamespace: path_with_namespace is never consulted.
ResolveNamespaceFullPathOnly(proj) ==
  IF proj.namespace.present THEN proj.namespace.full_path ELSE <<>>

\* ns = proj.get("namespace", {}).get("full_path"); if not ns: the part of
\* path_with_namespace before its last segment, "" when it has no "/".
ResolveNamespace(proj) ==
  IF proj.namespace.present /\ proj.namespace.full_path # <<>>
    THEN proj.namespace.full_path
    ELSE LET pwn == proj.path_with_namespace
         IN IF \E i \in 1..Len(pwn) : pwn[i] = Sep
              THEN Join(Front(Split(pwn)))
              ELSE <<>>

\* Mutant of ParentOf: every working copy goes directly under the root.
ParentOfFlat(proj) == DestRoot

\* parent = os.path.join(dest_root, ns) if ns else dest_root
ParentOf(proj) ==
  LET ns == ResolveNamespace(proj)
  IN IF ns # <<>> THEN PathJoin(DestRoot, ns) ELSE DestRoot

\* target = os.path.join(parent, project_slug)
TargetOf(proj) == PathJoin(ParentOf(proj), proj.path)

\* Mutant of UrlOf: the flag is ignored.
UrlOfHttp(proj) == proj.http_url_to_repo

\* url = proj["ssh_url_to_repo"] if args.use_ssh else proj["http_url_to_repo"]
UrlOf(proj) == IF use_ssh THEN proj.ssh_url_to_repo ELSE proj.http_url_to_repo

\* The directories os.makedirs(p, exist_ok=True) leaves in place: p and
\* every ancestor of p.
MakeDirs(p) ==
  {p} \cup {SubSeq(p, 1, i - 1) : i \in {j \in 2..Len(p) : p[j] = Sep}}

DotGit == <<".", "g", "i", "t">>

\* Mutant of IsRepo: only the directory itself is tested.
IsRepoDirOnly(files, target) == target \in files

\* os.path.isdir(target_path) and os.path.isdir(os.path.join(target_path, ".git"))
IsRepo(files, target) == target \in files /\ PathJoin(target, DotGit) \in files

\* What a successful git clone leaves: the working copy and its marker.
Cloned(target) == {target, PathJoin(target, DotGit)}

-----------------------------------------------------------------------------
(* main, phases 2 and 3, and GitLabCloner.clone_or_pull. *)

\* Mutant of Fatal: the handler logs the error and exits with status 0.
FatalExitZero(err) ==
  /\ log' = Append(log, [level |-> "critical", what |-> "fatal", ref |-> err])
  /\ pc' = "fatal"
  /\ exit_code' = 0

\* The handler at the end of the file: any exception but KeyboardInterrupt
\* is logged as fatal and the process exits with status 1.
Fatal(err) ==
  /\ log' = Append(log, [level |-> "critical", what |-> "fatal", ref |-> err])
  /\ pc' = "fatal"
  /\ exit_code' = 1

\* Mutant of MakeDestRoot: the loop starts without the root being made.
MakeDestRootSkipped ==
  /\ entry = "main"
  /\ pc = "makedirs"
  /\ pc' = "sync"
  /\ UNCHANGED <<history, fs_start, entry, srvProjects, srvSubgroups, group_ids, use_ssh, gidx,
                 all_projects, observed, gpc, stack, seen, projects, gid, projs, page,
                 items, reqs, log, pidx, fs, calls, exit_code>>

\* os.makedirs(dest_root, exist_ok=True): it creates the root, or raises.
MakeDestRoot ==
  /\ entry = "main"
  /\ pc = "makedirs"
  /\ \E ok \in BOOLEAN :
       IF ok THEN /\ fs' = fs \cup MakeDirs(DestRoot)
                  /\ pc' = "sync"
                  /\ UNCHANGED <<log, exit_code>>
             ELSE Fatal("OSError") /\ UNCHANGED fs
  /\ UNCHANGED <<history, fs_start, entry, srvProjects, srvSubgroups, group_ids, use_ssh, gidx,
                 all_projects, observed, gpc, stack, seen, projects, gid, projs, page,
                 items, reqs, pidx, calls>>

\* What the external git does: exit with status 0, or with another status
\* (subprocess.check_call raises CalledProcessError).
GitOutcomes == {"ok", "CalledProcessError"}

\* Mutant of GitCaught: check_call is not wrapped in try/except.
GitCaughtNever(err) == FALSE

\* except subprocess.CalledProcessError, after the pull and after the clone
GitCaught(err) == err = "CalledProcessError"

\* Mutant of GitOp: the working copy is never looked for.
GitOpAlwaysClone(files, target) == "clone"

\* clone_or_pull(repo_url, target_path): the operation it chooses, the
\* invocation it makes, its diagnostics and the filesystem afterwards.
GitOp(files, target) == IF IsRepo(files, target) THEN "pull" ELSE "clone"

GitCall(files, url, target, result) ==
  [op |-> GitOp(files, target), url |-> url, path |-> target, ok |-> result = "ok"]

\* Mutant of GitLog: a failed invocation is logged twice.
GitLogTwice(files, target, result) ==
  <<[level |-> "info", what |-> GitOp(files, target), ref |-> target]>>
  \o IF result = "ok" THEN <<>>
     ELSE <<[level |-> "error", what |-> GitOp(files, target), ref |-> target],
            [level |-> "error", what |-> GitOp(files, target), ref |-> target]>>

GitLog(files, target, result) ==
  <<[level |-> "info", what |-> GitOp(files, target), ref |-> target]>>
  \o IF result = "ok" THEN <<>>
     ELSE IF GitCaught(result)
       THEN <<[level |-> "error", what |-> GitOp(files, target), ref |-> target]>>
       ELSE <<[level |-> "critical", what |-> "fatal", ref |-> result]>>

GitFiles(files, target, result) ==
  IF GitOp(files, target) = "clone" /\ result = "ok"
    THEN files \cup Cloned(target)
    ELSE files

\* One iteration of for proj in all_projects.values(): the parent directory
\* is made (or the run dies), then clone_or_pull runs git once; a non-zero
\* exit of git is logged and the loop goes on.
SyncProject ==
  /\ entry = "main"
  /\ pc = "sync"
  /\ pidx < Len(all_projects)
  /\ LET proj == all_projects[pidx + 1]
         target == TargetOf(proj)
     IN \E made \in BOOLEAN, result \in GitOutcomes :
          IF made
            THEN LET files == fs \cup MakeDirs(ParentOf(proj))
                 IN /\ calls' = Append(calls, GitCall(files, UrlOf(proj), target, result))
                    /\ log' = log \o GitLog(files, target, result)
                    /\ fs' = GitFiles(files, target, result)
                    /\ IF result = "ok" \/ GitCaught(result)
                         THEN /\ pidx' = pidx + 1
                              /\ UNCHANGED <<pc, exit_code>>
                         ELSE /\ pc' = "fatal"
                              /\ exit_code' = 1
                              /\ UNCHANGED pidx
            ELSE /\ result = "ok"
                 /\ Fatal("OSError")
                 /\ UNCHANGED <<calls, fs, pidx>>
  /\ UNCHANGED <<history, fs_start, entry, srvProjects, srvSubgroups, group_ids, use_ssh, gidx,
                 all_projects, observed, gpc, stack, seen, projects, gid, projs,
                 page, items, reqs>>

\* The for loop ends and main returns: the process ends with status 0.
MainReturn ==
  /\ entry = "main"
  /\ pc = "sync"
  /\ pidx = Len(all_projects)
  /\ pc' = "done"
  /\ exit_code' = 0
  /\ UNCHANGED <<history, fs_start, entry, srvProjects, srvSubgroups, group_ids, use_ssh, gidx,
                 all_projects, observed, gpc, stack, seen, projects, gid, projs, page,
                 items, reqs, log, pidx, fs, calls>>

\* except KeyboardInterrupt: the user interrupts main wherever it is, and
\* the traversal, if one is under way, is unwound.
Interrupt ==
  /\ entry = "main"
  /\ pc \in {"gather", "makedirs", "sync"}
  /\ log' = Append(log, [level |-> "info", what |-> "aborted", ref |-> "user"])
  /\ pc' = "aborted"
  /\ gpc' = "idle"
  /\ exit_code' = 0
  /\ UNCHANGED <<history, fs_start, entry, srvProjects, srvSubgroups, group_ids, use_ssh, gidx,
                 all_projects, observed, stack, seen, projects, gid, projs, page,
                 items, reqs, pidx, fs, calls>>

\* The program is started again with the same arguments on the same
\* destination after its first run ended: every object of the process is
\* built afresh, the filesystem is what the first run left.
Rerun ==
  /\ entry = "main"
  /\ pc \in {"done", "fatal", "aborted"}
  /\ history = <<>>
  /\ history' = <<calls>>
  /\ pc' = "gather"
  /\ gpc' = "idle"
  /\ stack' = <<>>
  /\ gidx' = 0
  /\ all_projects' = <<>>
  /\ observed' = <<>>
  /\ seen' = {}
  /\ projects' = <<>>
  /\ gid' = IntRef(1)
  /\ projs' = <<>>
  /\ page' = FirstPage
  /\ items' = <<>>
  /\ reqs' = <<>>
  /\ log' = <<>>
  /\ pidx' = 0
  /\ calls' = <<>>
  /\ exit_code' = "none"
  /\ UNCHANGED <<fs_start, entry, srvProjects, srvSubgroups, group_ids, use_ssh, fs>>

-----------------------------------------------------------------------------
(* The hierarchies, the roots and the specifications. *)

\* A subgroup listing: the listed groups in id order.
RECURSIVE SetToSeq(_)
SetToSeq(S) ==
  IF S = {} THEN <<>>
  ELSE LET m == CHOOSE x \in S : \A y \in S : x <= y
       IN <<Subgroup(m)>> \o SetToSeq(S \ {m})

\* The server's subgroup listings for a set of parent-child pairs.
Hierarchy(edges) == [g \in Groups |-> SetToSeq({h \in Groups : <<g, h>> \in edges})]

\* Every hierarchy of at most MaxEdges parent-child pairs over the groups.
\* A group may list itself or one of its ancestors (the API anomaly the
\* visited set is there for).
Hierarchies ==
  {Hierarchy(edges) : edges \in {e \in SUBSET (Groups \X Groups) : Cardinality(e) <= MaxEdges}}

\* The hierarchies of the runs of main: a flat group, children, siblings,
\* a child that lists its parent.
RunHierarchies == {Hierarchy(edges) : edges \in SUBSET {<<1, 2>>, <<1, 3>>, <<2, 1>>}}

\* args.group_ids: argparse hands main strings, one or two of them here.
RunRoots == {<<StrRef(1)>>, <<StrRef(1), StrRef(2)>>, <<StrRef(2), StrRef(1)>>}

\* The destination before the run: empty, holding a clone of project 41,
\* or holding the directory of project 42 without a marker.
InitialFiles ==
  {{}, MakeDirs(TargetOf(P41)) \cup Cloned(TargetOf(P41)), MakeDirs(TargetOf(P42a))}

InitCommon ==
  /\ gidx = 0
  /\ all_projects = <<>>
  /\ observed = <<>>
  /\ seen = {}
  /\ projects = <<>>
  /\ gid = IntRef(1)
  /\ projs = <<>>
  /\ page = FirstPage
  /\ items = <<>>
  /\ reqs = <<>>
  /\ log = <<>>
  /\ pidx = 0
  /\ calls = <<>>
  /\ exit_code = "none"
  /\ history = <<>>
  /\ fs_start = fs

\* A run of main from the command line.
Init ==
  /\ entry = "main"
  /\ srvProjects = RunProjects
  /\ srvSubgroups \in RunHierarchies
  /\ group_ids \in RunRoots
  /\ use_ssh \in BOOLEAN
  /\ fs \in InitialFiles
  /\ pc = "gather"
  /\ gpc = "idle"
  /\ stack = <<>>
  /\ InitCommon

Next ==
  \/ MainGather
  \/ PopSeen
  \/ PopNew
  \/ GetPage
  \/ GatherReturn
  \/ MakeDestRoot
  \/ SyncProject
  \/ MainReturn
  \/ Interrupt

Spec == Init /\ [][Next]_vars

\* One call of gather_all_projects(1) where group 1 lists 0..MaxTotal
\* projects, over several pages, and one subgroup, group 2, that holds
\* project 43.
InitPages ==
  /\ entry = "gather"
  /\ \E n \in 0..MaxTotal :
       srvProjects = [g \in Groups |-> CASE g = 1 -> BigProjects(n)
                                         [] g = 2 -> <<P43>>
                                         [] OTHER -> <<>>]
  /\ srvSubgroups = [g \in Groups |-> IF g = 1 THEN <<Subgroup(2)>> ELSE <<>>]
  /\ group_ids = <<IntRef(1)>>
  /\ stack = <<IntRef(1)>>
  /\ use_ssh = FALSE
  /\ fs = {}
  /\ pc = "gather"
  /\ gpc = "loop"
  /\ InitCommon

NextPages ==
  \/ PopNew
  \/ GetPage
  \/ GatherReturn

SpecPages == InitPages /\ [][NextPages]_vars

\* The full paths the service can give: 1..MaxSegments segments joined by "/".
SegmentNames == {<<"t">>, <<"s">>}

FullPaths ==
  {Join(segs) : segs \in UNION {[1..n -> SegmentNames] : n \in 1..MaxSegments}}

\* The records of one project, with every shape of namespace and of
\* path_with_namespace.
NsProjects ==
  {Project(50, ns, pwn, <<"p">>, 1) :
     ns \in {NoNamespace, Namespace(<<>>), Namespace(<<"t">>), Namespace(<<"t", "/", "s">>)},
     pwn \in FullPaths}

\* A run of main on one group that holds one project and no subgroup.
InitNamespace ==
  /\ entry = "main"
  /\ \E proj \in NsProjects :
       srvProjects = [g \in Groups |-> IF g = 1 THEN <<proj>> ELSE <<>>]
  /\ srvSubgroups = [g \in Groups |-> <<>>]
  /\ group_ids = <<StrRef(1)>>
  /\ use_ssh = FALSE
  /\ fs = {}
  /\ pc = "gather"
  /\ gpc = "idle"
  /\ stack = <<>>
  /\ InitCommon

NextNamespace ==
  \/ MainGather
  \/ PopNew
  \/ GetPage
  \/ GatherReturn
  \/ MakeDestRoot
  \/ SyncProject
  \/ MainReturn

SpecNamespace == InitNamespace /\ [][NextNamespace]_vars

\* Two consecutive runs of main on one root against the same destination.
InitRerun ==
  /\ Init
  /\ group_ids = <<StrRef(1)>>
  /\ ~use_ssh

NextRerun ==
  \/ Next
  \/ Rerun

SpecRerun == InitRerun /\ [][NextRerun]_vars

\* One call of gather_all_projects(root), as a caller of the class makes it,
\* with the root given as an int or as a string.
InitGather ==
  /\ entry = "gather"
  /\ srvProjects = RunProjects
  /\ srvSubgroups \in Hierarchies
  /\ \E root \in {IntRef(1), StrRef(1)} : group_ids = <<root>> /\ stack = <<root>>
  /\ use_ssh = FALSE
  /\ fs = {}
  /\ pc = "gather"
  /\ gpc = "loop"
  /\ InitCommon

NextGather ==
  \/ PopSeen
  \/ PopNew
  \/ GetPage
  \/ GatherReturn

SpecGather == InitGather /\ [][NextGather]_vars

\* The call runs on its own thread of control: a step that can be taken is
\* taken.
SpecGatherFair == SpecGather /\ WF_vars(NextGather)

\* One call of _get on a listing of 0..MaxTotal records.
InitGet ==
  /\ entry = "get"
  /\ \E n \in 0..MaxTotal :
       /\ srvProjects = [g \in Groups |-> BigProjects(n)]
       /\ srvSubgroups = [g \in Groups |-> BigSubgroups(n)]
  /\ group_ids = <<IntRef(1)>>
  /\ stack = <<>>
  /\ use_ssh = FALSE
  /\ fs = {}
  /\ pc = "get"
  /\ gpc \in {"list_projects", "list_subgroups"}
  /\ InitCommon

NextGet == GetPage

SpecGet == InitGet /\ [][NextGet]_vars

-----------------------------------------------------------------------------
(* Pagination (SpecGet). *)

\* The listing the single _get call of SpecGet fetches, and its size.
GetListing == IF reqs # <<>> /\ reqs[1].kind = "list_subgroups"
                THEN srvSubgroups[1] ELSE srvProjects[1]
Total == Len(srvProjects[1])

\* C8: when the listing splits in k pages, the first k-1 of PerPage records
\* and the last of 1..PerPage-1, a _get that returns has issued exactly k
\* requests, for the pages 1, 2, ..., k in that order, each with
\* per_page = PerPage and each answered with its page, and returns the k
\* pages concatenated in order.
C8_PaginationCompleteness ==
  (entry = "get" /\ pc = "returned" /\ Total % PerPage \in 1..(PerPage - 1)) =>
    LET k == (Total \div PerPage) + 1
    IN /\ Len(reqs) = k
       /\ \A i \in 1..k :
            /\ reqs[i].params.page = i
            /\ reqs[i].params.per_page = PerPage
            /\ reqs[i].size = IF i < k THEN PerPage ELSE Total % PerPage
       /\ items = GetListing
       /\ Len(items) = Total

\* C8 witness: a listing of 237 records returned after 3 requests.
C8_Witness ==
  /\ entry = "get" /\ pc = "returned"
  /\ Total = 237 /\ Len(reqs) = 3 /\ Len(items) = 237
  /\ reqs[3].size = 37

\* C9: a page of exactly PerPage records is never the last request: the
\* next page is requested after it; _get returns only after an empty page
\* or a page of fewer than PerPage records; and a listing of k full pages
\* costs k+1 requests and is returned whole.
C9_FullPageNeverLast ==
  entry = "get" =>
    /\ \A i \in 1..Len(reqs) :
         (reqs[i].outcome = "ok" /\ reqs[i].size = PerPage) =>
           (i < Len(reqs) \/ (pc = "get" /\ page = i + 1))
    /\ pc = "returned" => reqs[Len(reqs)].size < PerPage
    /\ (pc = "returned" /\ Total % PerPage = 0) =>
         /\ Len(reqs) = (Total \div PerPage) + 1
         /\ reqs[Len(reqs)].size = 0
         /\ items = GetListing

\* C9 witness: a listing of 200 records returned after 3 requests, the
\* third answered with an empty page.
C9_Witness ==
  /\ entry = "get" /\ pc = "returned"
  /\ Total = 200 /\ Len(reqs) = 3 /\ reqs[2].size = PerPage /\ reqs[3].size = 0
  /\ Len(items) = 200

-----------------------------------------------------------------------------
(* Synchronization and the merge (Spec). *)

Ids(list) == {list[i].id : i \in 1..Len(list)}
Failed == {i \in 1..Len(calls) : ~calls[i].ok}
Errors == {j \in 1..Len(log) : log[j].level = "error"}

\* C1: whatever subset of the clone or update invocations fails, every
\* project the loop has reached was handed to clone_or_pull, in order, each
\* failure left exactly one error diagnostic naming its path, the failures
\* never end the run (a fatal end has another cause), and a run that
\* reaches the end of the loop has invoked clone_or_pull for every unique
\* project and exits with status 0.
C1_FailureIsolation ==
  entry = "main" =>
    /\ Len(calls) = pidx
    /\ \A i \in 1..Len(calls) : calls[i].path = TargetOf(all_projects[i])
    /\ Cardinality(Errors) = Cardinality(Failed)
    /\ \A i \in Failed : \E j \in Errors : log[j].ref = calls[i].path
    /\ pc = "fatal" => log[Len(log)].ref \in {"OSError", "ConnectionError"}
    /\ pc = "done" => /\ pidx = Len(all_projects)
                      /\ exit_code = 0

\* C1 witness: a finished run over 3 unique projects in which the second
\* invocation failed and the first and the third succeeded.
C1_Witness ==
  /\ entry = "main" /\ pc = "done" /\ exit_code = 0
  /\ Len(all_projects) = 3 /\ Len(calls) = 3
  /\ calls[1].ok /\ ~calls[2].ok /\ calls[3].ok

\* C10: the merged map holds exactly one entry for every project id that
\* occurs in a list gather_all_projects returned, that entry is the last
\* record observed for the id, no id is handed to clone_or_pull twice, and a
\* run that reaches the end has invoked clone_or_pull exactly once for
\* every distinct id.
C10_DedupCorrectness ==
  entry = "main" =>
    /\ Ids(all_projects) = Ids(observed)
    /\ \A i, j \in 1..Len(all_projects) :
         all_projects[i].id = all_projects[j].id => i = j
    /\ \A i \in 1..Len(all_projects) :
         \E k \in 1..Len(observed) :
           /\ observed[k] = all_projects[i]
           /\ \A m \in (k + 1)..Len(observed) : observed[m].id # all_projects[i].id
    /\ \A i \in 1..Len(all_projects) :
         Cardinality({c \in 1..Len(calls) : calls[c].url = UrlOf(all_projects[i])}) <= 1
    /\ pc = "done" =>
         /\ Len(calls) = Cardinality(Ids(observed))
         /\ \A i \in 1..Len(all_projects) :
              Cardinality({c \in 1..Len(calls) : calls[c].url = UrlOf(all_projects[i])}) = 1

\* C10 witness: a finished run that observed project 42 under two roots,
\* with two different records, and kept one entry for it.
C10_Witness ==
  /\ entry = "main" /\ pc = "done"
  /\ \E k, m \in 1..Len(observed) :
       k < m /\ observed[k] = P42a /\ observed[m] = P42b
  /\ Cardinality({i \in 1..Len(all_projects) : all_projects[i].id = 42}) = 1
  /\ Cardinality({c \in 1..Len(calls) : calls[c].url = UrlOf(P42b)}) = 1

-----------------------------------------------------------------------------
(* The traversal (SpecGather, Spec). *)

Root == group_ids[1]
Children(g) == {srvSubgroups[g][i].id : i \in 1..Len(srvSubgroups[g])}
Records(list) == {list[i] : i \in 1..Len(list)}
Count(r, list) == Cardinality({i \in 1..Len(list) : list[i] = r})
FailedReqs == {i \in 1..Len(reqs) : reqs[i].outcome # "ok"}
Warnings == {j \in 1..Len(log) : log[j].level = "warning"}

\* The groups reachable from a set of groups through the subgroup listings.
RECURSIVE Reach(_)
Reach(S) ==
  LET T == S \cup UNION {Children(g) : g \in S}
  IN IF T = S THEN S ELSE Reach(T)

\* The references a call with no failed fetch pops and finds new: the root
\* as given, and the int id of every group some reachable group lists.
Expanded(root) ==
  {root} \cup {IntRef(h) : h \in UNION {Children(g) : g \in Reach({Resolve(root)})}}

\* C2 (as claimed): a step in which a listing fetch of group g fails pushes
\* nothing on the worklist, reports the failure as a warning naming g, and
\* leaves the traversal in its loop, where the groups still on the worklist
\* are popped and expanded.
C2_PartialFailurePolicy ==
  [][(Len(reqs') = Len(reqs) + 1 /\ reqs'[Len(reqs')].outcome # "ok") =>
       /\ stack' = stack
       /\ log' = Append(log, [level |-> "warning", what |-> "fetch", ref |-> gid])
       /\ gpc' = "loop"]_vars

\* C3 (as claimed): in a run of main every failed listing request, of
\* either kind, left one warning, and no run ends fatally because of a
\* listing request: the only fatal cause is the filesystem.
C3_TransportErrorRecovered ==
  entry = "main" =>
    /\ Cardinality(Warnings) = Cardinality(FailedReqs)
    /\ \A i \in FailedReqs : \E j \in Warnings : log[j].ref = reqs[i].ref
    /\ pc = "fatal" => log[Len(log)].ref = "OSError"

\* C4 (as claimed): whatever the form of the root, one call issues the
\* first page of the project listing and of the subgroup listing of each
\* group at most once, and a call with no failed fetch adds the projects
\* of each group once.
C4_CycleSafety ==
  entry = "gather" =>
    /\ \A g \in Groups, kind \in {"list_projects", "list_subgroups"} :
         Cardinality({i \in 1..Len(reqs) :
                        /\ reqs[i].kind = kind
                        /\ Resolve(reqs[i].ref) = g
                        /\ reqs[i].params.page = FirstPage}) <= 1
    /\ \A g \in Groups : \A r \in Records(srvProjects[g]) :
         Count(r, projects) <= Cardinality({h \in Groups : r \in Records(srvProjects[h])})

\* C5 (as claimed): every call eventually empties its worklist and returns.
C5_Termination == <>(entry = "gather" /\ pc = "returned" /\ stack = <<>>)

\* Every call ends: it returns or it raises.
CallEnds == <>(pc \in {"returned", "raised"})

\* C6: a call in which no fetch failed returns the direct projects of the
\* groups reachable from the root, the root included, and of no other
\* group; how often a record occurs in the list is fixed by the hierarchy
\* alone (once for each expanded reference whose group lists it), so the
\* list is the same up to its order whatever the pop order.
C6_TraversalCompleteness ==
  (entry = "gather" /\ pc = "returned" /\ FailedReqs = {}) =>
    /\ Records(projects) = UNION {Records(srvProjects[g]) : g \in Reach({Resolve(Root)})}
    /\ \A r \in Records(projects) :
         Count(r, projects) =
           Cardinality({ref \in Expanded(Root) : r \in Records(srvProjects[Resolve(ref)])})

\* C6 witness: a returned call without failures over the chain 1 > 2 > 3,
\* whose list holds the project of the group nested two levels down.
C6_Witness ==
  /\ entry = "gather" /\ pc = "returned" /\ FailedReqs = {}
  /\ Children(1) = {2} /\ Children(2) = {3} /\ Children(3) = {}
  /\ Records(projects) = {P41, P42a, P42b, P43}

\* C7 (as claimed): a call that returns has every record of every project
\* listing it fetched successfully in the returned list.
C7_FetchedProjectsReturned ==
  (entry = "gather" /\ pc = "returned") =>
    \A i \in 1..Len(reqs) :
      (reqs[i].kind = "list_projects" /\ reqs[i].outcome = "ok") =>
        Records(srvProjects[Resolve(reqs[i].ref)]) \subseteq Records(projects)

-----------------------------------------------------------------------------
(* What the traversal does guarantee where the claims above fail. *)

\* A listing fetch that fails with an HTTPError pushes nothing, leaves one
\* warning naming the group and lets the loop go on.
HttpErrorRecovered ==
  [][(Len(reqs') = Len(reqs) + 1 /\ reqs'[Len(reqs')].outcome = "HTTPError"
      /\ entry # "get") =>
       /\ stack' = stack
       /\ projects' = projects
       /\ log' = Append(log, [level |-> "warning", what |-> "fetch", ref |-> gid])
       /\ gpc' = "loop"
       /\ pc' = pc]_vars

\* A listing fetch that cannot complete ends the call, and the run of main,
\* at once: nothing more is popped and no warning is left.
ConnectionErrorEscapes ==
  [][(Len(reqs') = Len(reqs) + 1 /\ reqs'[Len(reqs')].outcome = "ConnectionError") =>
       /\ pc' \in {"raised", "fatal"}
       /\ gpc' = "idle"
       /\ stack' = stack
       /\ Warnings = {j \in 1..Len(log') : log'[j].level = "warning"}]_vars

\* Within one call each reference, not each group, is expanded at most
\* once; a group is expanded at most once as an int and once as a string.
EachRefExpandedOnce ==
  \A ref \in GroupRefs, kind \in {"list_projects", "list_subgroups"} :
    Cardinality({i \in 1..Len(reqs) :
                   /\ reqs[i].call = gidx
                   /\ reqs[i].kind = kind
                   /\ reqs[i].ref = ref
                   /\ reqs[i].params.page = FirstPage}) <= 1

\* A call whose root is an int expands each group at most once.
IntRootExpandedOnce ==
  (entry = "gather" /\ Root.form = "int") =>
    \A g \in Groups :
      Cardinality({i \in 1..Len(reqs) :
                     /\ reqs[i].kind = "list_projects"
                     /\ Resolve(reqs[i].ref) = g}) <= 1

\* A call that returns has the projects of every reference both of whose
\* listings it fetched, and of no other.
ExpandedProjectsReturned ==
  (entry = "gather" /\ pc = "returned") =>
    Records(projects) =
      UNION {Records(srvProjects[Resolve(reqs[i].ref)]) :
               i \in {k \in 1..Len(reqs) : reqs[k].kind = "list_subgroups"
                                           /\ reqs[k].outcome = "ok"}}

-----------------------------------------------------------------------------
(* clone_or_pull and the synchronization loop. *)

\* The project the loop handles next, and where its working copy goes.
NextProject == all_projects[pidx + 1]

Marker(path) == path \o <<"/", ".", "g", "i", "t">>

\* The directories that exist when clone_or_pull is entered for the next
\* project: main has just made the parent.
FilesAtCall == fs \cup MakeDirs(ParentOf(NextProject))

\* C11: clone_or_pull(url, path) runs git exactly once: a pull scoped to
\* path if and only if path is a directory that holds the .git marker, and
\* otherwise, also when path exists without the marker, a clone of url into
\* path.
C11_CloneOrPullDecision ==
  [][((pc = "sync" /\ pc' = "sync" /\ pidx' # pidx)
      \/ (calls' # calls /\ history' = history)) =>
       /\ pidx' = pidx + 1
       /\ Len(calls') = Len(calls) + 1
       /\ SubSeq(calls', 1, Len(calls)) = calls
       /\ LET c == calls'[Len(calls')]
              path == TargetOf(NextProject)
          IN /\ c.path = path
             /\ c.url = UrlOf(NextProject)
             /\ c.op \in {"pull", "clone"}
             /\ c.op = "pull" <=>
                  (path \in FilesAtCall /\ Marker(path) \in FilesAtCall)]_vars

\* The second run pulls a working copy and clones, without success, into a
\* directory that is there without the marker.
C11_Witness ==
  /\ history # <<>>
  /\ \E i \in 1..Len(calls) : calls[i].op = "pull"
  /\ \E i \in 1..Len(calls) :
       /\ calls[i].op = "clone"
       /\ ~calls[i].ok
       /\ calls[i].path \in fs
       /\ Marker(calls[i].path) \notin fs

\* The git invocations of both runs, in order.
AllCalls == (IF history = <<>> THEN <<>> ELSE history[1]) \o calls

Run1 == IF history = <<>> THEN calls ELSE history[1]

Run2 == IF history = <<>> THEN <<>> ELSE calls

CallsOf(seq, path, op) == {i \in 1..Len(seq) : seq[i].path = path /\ seq[i].op = op}

\* The working copies of the projects the server holds.
Paths ==
  UNION {{TargetOf(srvProjects[g][i]) : i \in 1..Len(srvProjects[g])} : g \in Groups}

\* C12 as stated: for a project absent locally at the start, two consecutive
\* runs issue one clone in the first run and one pull and no clone in the
\* second; no project is cloned twice.
C12_IdempotentRerun ==
  \A path \in {p \in Paths : p \notin fs_start} :
    /\ Cardinality(CallsOf(AllCalls, path, "clone")) <= 1
    /\ (history # <<>> /\ pc = "done" /\ CallsOf(Run1, path, "clone") # {}) =>
         Cardinality(CallsOf(Run2, path, "pull")) = 1

\* The positions of the dict at which the loop has already handled path.
Handled(path) == {k \in 1..pidx : TargetOf(all_projects[k]) = path}

\* C12, amended: a project absent locally is cloned at most once by the
\* first run; if that clone succeeds, the second run issues no clone for it
\* and one pull when its loop handles the project; a project is cloned again
\* only after every earlier clone of it failed.
C12_RerunAfterSuccessfulClone ==
  \A path \in {p \in Paths : p \notin fs_start} :
    /\ CallsOf(Run1, path, "pull") = {}
    /\ Cardinality(CallsOf(Run1, path, "clone")) <= 1
    /\ \A i, j \in CallsOf(AllCalls, path, "clone") : i < j => ~AllCalls[i].ok
    /\ (history # <<>> /\ \E i \in CallsOf(Run1, path, "clone") : Run1[i].ok) =>
         /\ CallsOf(Run2, path, "clone") = {}
         /\ Cardinality(CallsOf(Run2, path, "pull")) = Cardinality(Handled(path))
         /\ Cardinality(Handled(path)) <= 1

\* Both runs finished: the first cloned a project that was absent, the
\* second pulled it.
C12_Witness ==
  /\ history # <<>>
  /\ pc = "done"
  /\ \E path \in Paths :
       /\ path \notin fs_start
       /\ \E i \in CallsOf(Run1, path, "clone") : Run1[i].ok
       /\ CallsOf(Run2, path, "pull") # {}

-----------------------------------------------------------------------------
(* The destination path. *)

\* Every record the server holds, in any listing.
ServerRecords ==
  UNION {{srvProjects[g][i] : i \in 1..Len(srvProjects[g])} : g \in Groups}

\* destRoot / namespace / slug, written out as a string.
DestinationOf(root, ns, slug) ==
  root \o (IF ns = <<>> THEN <<>> ELSE <<"/">> \o ns) \o <<"/">> \o slug

\* C13: the path handed to clone_or_pull is destRoot/namespace/slug, a
\* function of the destination root and of the project's namespace and slug
\* only: whichever roots are configured, in whichever order, whichever root
\* the record came from and whatever the destination holds, a project with
\* namespace a/b and slug x goes to <destRoot>/a/b/x.
C13_DestinationDeterminism ==
  \A i \in 1..Len(calls) :
    \E r \in ServerRecords :
      /\ calls[i].url \in {r.http_url_to_repo, r.ssh_url_to_repo}
      /\ calls[i].path = DestinationOf(DestRoot, ResolveNamespace(r), r.path)
      /\ (r.namespace.present /\ r.namespace.full_path = <<"a", "/", "b">>
          /\ r.path = <<"x">>) =>
           calls[i].path = <<"/", "d", "/", "a", "/", "b", "/", "x">>

\* Project 42 is listed under both roots, given as "2" then "1"; it and
\* project 41 have been synchronized.
C13_Witness ==
  /\ group_ids = <<StrRef(2), StrRef(1)>>
  /\ \E i \in 1..Len(calls) : calls[i].path = <<"/", "d", "/", "a", "/", "b", "/", "x">>
  /\ \E i \in 1..Len(calls) :
       /\ calls[i].path = <<"/", "d", "/", "a", "/", "y">>
       /\ calls[i].url \in {P42a.http_url_to_repo, P42a.ssh_url_to_repo}

\* The part of a string before its last "/", "" when it has none.
BeforeLastSep(s) ==
  LET at == {k \in 1..Len(s) : s[k] = "/"}
  IN IF at = {} THEN <<>>
     ELSE SubSeq(s, 1, (CHOOSE k \in at : \A j \in at : j <= k) - 1)

\* The namespace C14 describes for a record.
NamespaceUsed(r) ==
  IF r.namespace.present /\ r.namespace.full_path # <<>>
    THEN r.namespace.full_path
    ELSE BeforeLastSep(r.path_with_namespace)

\* C14: main uses namespace.full_path when it is present and non-empty,
\* otherwise path_with_namespace without its last segment (t/s/t gives t/s),
\* and puts the project directly under the destination root when that is
\* empty too.
C14_NamespaceFallback ==
  \A i \in 1..Len(calls) :
    LET r == all_projects[i]
    IN /\ calls[i].path = DestinationOf(DestRoot, NamespaceUsed(r), r.path)
       /\ MakeDirs(DestinationOf(DestRoot, NamespaceUsed(r), r.path)) \ {calls[i].path}
            \subseteq fs
       /\ (~r.namespace.present /\ r.path_with_namespace = <<"t", "/", "s", "/", "t">>) =>
            calls[i].path = <<"/", "d", "/", "t", "/", "s", "/", "p">>
       /\ (~r.namespace.present /\ r.path_with_namespace = <<"t">>) =>
            calls[i].path = <<"/", "d", "/", "p">>
       /\ (r.namespace.present /\ r.namespace.full_path = <<"t">>) =>
            calls[i].path = <<"/", "d", "/", "t", "/", "p">>

\* A record without a namespace object and with a three-segment full path
\* has been synchronized under the first two segments.
C14_Witness ==
  /\ Len(calls) = 1
  /\ ~all_projects[1].namespace.present
  /\ all_projects[1].path_with_namespace = <<"t", "/", "s", "/", "t">>
  /\ calls[1].path = <<"/", "d", "/", "t", "/", "s", "/", "p">>

-----------------------------------------------------------------------------
(* How a run ends. *)

Terminal == {"done", "fatal", "aborted"}

\* A step of the program itself, the user leaving it alone.
ProgramStep ==
  \/ MainGather
  \/ PopSeen
  \/ PopNew
  \/ GetPage
  \/ GatherReturn
  \/ MakeDestRoot
  \/ SyncProject
  \/ MainReturn

Criticals == {i \in 1..Len(log) : log[i].level = "critical"}

\* C15: an error that escapes the traversal or the synchronizer ends the
\* run with status 1 and nothing, no clone or pull in particular, follows
\* it; an interruption ends the run with status 0; a run with only
\* recovered listing failures and git failures goes on to the end of the
\* loop and ends with status 0.
C15_RunEnds ==
  /\ pc = "fatal" => exit_code = 1
  /\ pc \in {"done", "aborted"} => exit_code = 0
  /\ pc \notin Terminal => exit_code = "none"
  /\ pc = "fatal" <=> Criticals # {}
  /\ \A i \in Criticals :
       /\ i = Len(log)
       /\ log[i].ref \in {"ConnectionError", "OSError"}
  /\ (\E i \in 1..Len(reqs) : reqs[i].outcome = "ConnectionError") => pc = "fatal"
  /\ pc = "aborted" <=>
       (log # <<>> /\ log[Len(log)].what = "aborted")
  /\ pc = "done" =>
       /\ gidx = Len(group_ids)
       /\ pidx = Len(all_projects)
       /\ Len(calls) = pidx
  /\ pc \notin Terminal => ENABLED ProgramStep
  /\ pc \in Terminal => ~ENABLED Next

\* A run ended normally although a listing request and a git invocation
\* failed in it.
C15_Witness ==
  /\ pc = "done"
  /\ exit_code = 0
  /\ \E i \in 1..Len(reqs) : reqs[i].outcome = "HTTPError"
  /\ \E i \in 1..Len(calls) : ~calls[i].ok

-----------------------------------------------------------------------------
(* Retries. *)

\* C16: nothing is retried. After a listing request failed, the same call
\* of gather_all_projects issues no further request for that group; after a
\* clone or a pull failed, the run issues no further invocation, clone or
\* pull, for that project; and every failure leaves exactly one diagnostic:
\* a warning (a critical entry when the error is not caught) for a request,
\* an error entry naming the operation and the path for an invocation.
C16_NoRetries ==
  /\ \A i \in FailedReqs : \A j \in (i + 1)..Len(reqs) :
       ~(reqs[j].call = reqs[i].call /\ Resolve(reqs[j].ref) = Resolve(reqs[i].ref))
  /\ \A i \in Failed : \A j \in (i + 1)..Len(calls) :
       calls[j].path # calls[i].path /\ calls[j].url # calls[i].url
  /\ Cardinality(FailedReqs) =
       Cardinality(Warnings)
       + Cardinality({j \in Criticals : log[j].ref = "ConnectionError"})
  /\ Cardinality(Failed) = Cardinality(Errors)
  /\ \A i \in Failed :
       Cardinality({j \in Errors : log[j].ref = calls[i].path
                                   /\ log[j].what = calls[i].op}) = 1

\* A finished run in which a listing request failed and requests for other
\* groups followed in the same call, a pull failed and a clone failed.
C16_Witness ==
  /\ pc = "done"
  /\ \E i \in FailedReqs : \E j \in (i + 1)..Len(reqs) : reqs[j].call = reqs[i].call
  /\ \E i \in Failed : calls[i].op = "pull" /\ i < Len(calls)
  /\ \E i \in Failed : calls[i].op = "clone" /\ i < Len(calls)

-----------------------------------------------------------------------------
(* The remote address. *)

\* C17: every clone of a run is given the address of the kind use_ssh
\* selects, ssh_url_to_repo of the project's record when it is set and
\* http_url_to_repo otherwise.
C17_AddressKind ==
  \A i \in 1..Len(calls) :
    calls[i].op = "clone" =>
      /\ calls[i].url = IF use_ssh THEN all_projects[i].ssh_url_to_repo
                                   ELSE all_projects[i].http_url_to_repo
      /\ calls[i].url[1] = IF use_ssh THEN "ssh" ELSE "http"
      /\ calls[i].url[2] = all_projects[i].id

\* With use_ssh set, two projects have been cloned.
C17_Witness ==
  /\ use_ssh
  /\ Cardinality({i \in 1..Len(calls) : calls[i].op = "clone"}) >= 2

-----------------------------------------------------------------------------
(* The phases of main. *)

\* C18: a clone or a pull is issued only after gather_all_projects has
\* returned for every root and the destination root has been made, and
\* once the first clone_or_pull has been invoked no listing request is
\* issued and neither the visited set nor the id-keyed dict changes.
C18_PhaseOrdering ==
  [][/\ calls' # calls =>
          /\ gidx = Len(group_ids)
          /\ Len(observed) = Len(observed')
          /\ gpc = "idle"
          /\ stack = <<>>
          /\ pc = "sync"
          /\ DestRoot \in fs
     /\ calls # <<>> =>
          /\ reqs' = reqs
          /\ seen' = seen
          /\ all_projects' = all_projects]_vars

\* Two roots were traversed, both with listing requests, and two projects
\* have been handed to clone_or_pull since.
C18_Witness ==
  /\ Len(group_ids) = 2
  /\ \E i, j \in 1..Len(reqs) : reqs[i].call # reqs[j].call
  /\ Len(calls) >= 2

-----------------------------------------------------------------------------
(* Partial listings. *)

\* C19: _get gives its caller the whole listing or an error. Once a
\* request for a group has failed, on whatever page, the call has none of
\* that group's projects, also not those of the pages it did get, and none
\* of its subgroups is on the worklist, visited or requested; and what
\* list_projects returned to the loop is the whole listing.
C19_AllOrNothing ==
  /\ \A i \in FailedReqs :
       LET g == Resolve(reqs[i].ref)
       IN /\ \A k \in 1..Len(projects) : projects[k] \notin Records(srvProjects[g])
          /\ \A k \in 1..Len(srvSubgroups[g]) :
               LET sub == IntRef(srvSubgroups[g][k].id)
               IN /\ sub \notin seen
                  /\ \A j \in 1..Len(stack) : stack[j] # sub
                  /\ \A j \in 1..Len(reqs) : reqs[j].ref # sub
  /\ gpc = "list_subgroups" => projs = srvProjects[Resolve(gid)]
  /\ (pc = "returned" /\ FailedReqs = {}) =>
       projects = srvProjects[1] \o srvProjects[2]

\* The call returned with nothing after the first page of 100 projects
\* came and the request for the second page failed.
C19_Witness ==
  /\ pc = "returned"
  /\ projects = <<>>
  /\ Len(reqs) = 2
  /\ reqs[1].outcome = "ok" /\ reqs[1].size = PerPage /\ reqs[1].params.page = 1
  /\ reqs[2].outcome = "HTTPError" /\ reqs[2].params.page = 2
  /\ reqs[2].kind = "list_projects"

-----------------------------------------------------------------------------
(* The visited set. *)

\* The requests that open the expansion of group g in call k (calls are
\* numbered from 0, in the order of the roots).
Expansions(k, g) ==
  {i \in 1..Len(reqs) : /\ reqs[i].call = k
                        /\ reqs[i].kind = "list_projects"
                        /\ reqs[i].params.page = FirstPage
                        /\ Resolve(reqs[i].ref) = g}

\* The calls that returned without a failed request.
CleanCalls == {k \in 0..(gidx - 1) : \A i \in FailedReqs : reqs[i].call # k}

\* Each call starts with an empty visited set, a popped entry that is in
\* the set causes no request, and a call that returns without a failure
\* has expanded every group reachable from its root, also those an earlier
\* call expanded.
VisitedSetPerCall ==
  /\ (gpc = "idle" /\ gpc' = "loop") =>
       (seen' = {} /\ stack' = <<group_ids[gidx + 1]>> /\ projects' = <<>>)
  /\ (gpc = "loop" /\ stack # <<>> /\ Last(stack) \in seen) =>
       (reqs' = reqs /\ seen' = seen /\ gpc' \in {"loop", "idle"})
  /\ \A k \in CleanCalls :
       \A g \in Reach({Resolve(group_ids[k + 1])}) : Expansions(k, g) # {}
  /\ all_projects' # all_projects => (gpc = "loop" /\ stack = <<>> /\ gidx' = gidx + 1)

\* C20: the visited set belongs to one call of gather_all_projects: a
\* group reachable from two roots is expanded once for each root, an entry
\* of the worklist that is in the set is skipped without a request, and
\* only the id-keyed dict of main removes duplicates.
C20_VisitedSetLocal ==
  [][/\ VisitedSetPerCall
     /\ \A k \in 0..gidx, g \in Groups : Cardinality(Expansions(k, g)) <= 1]_vars

\* What holds in place of the last conjunct: in one call each reference,
\* a string or an int, is expanded at most once.
VisitedSetLocalPerRef ==
  [][/\ VisitedSetPerCall
     /\ \A k \in 0..gidx, ref \in GroupRefs :
          Cardinality({i \in Expansions(k, Resolve(ref)) : reqs[i].ref = ref}) <= 1]_vars

\* Group 2 was expanded in the call for root "1" and again in the call for
\* root "2".
GroupExpandedForBothRoots ==
  /\ group_ids = <<StrRef(1), StrRef(2)>>
  /\ Expansions(0, 2) # {}
  /\ Expansions(1, 2) # {}

=============================================================================
